---------------------------- MODULE Spec2Model ----------------------------
(***************************************************************************)
(* A model of the Zeus market-data recorder: the WebSocket frame codec and *)
(* client protocol (zeus/exchanges/websocket_client.py), the Recorder      *)
(* (zeus/exchanges/recorder.py) and the Trader that supervises one         *)
(* Recorder per instrument and flushes their buffers                       *)
(* (zeus/traders/prometheus.py).                                           *)
(*                                                                         *)
(* Bytes are the integers 0..255 and a bytes object is a sequence of them. *)
(* Python offsets are 0-based: data[k] is written data[k + 1] here.        *)
(***************************************************************************)
EXTENDS Integers, Sequences, FiniteSets, TLC

(***************************************************************************)
(* Bounds of the model.                                                    *)
(***************************************************************************)
\* Number of instruments of the configuration (config["instrument"]).
NumInstruments == 2

Instruments == 1..NumInstruments

(***************************************************************************)
(* Program constants.                                                      *)
(***************************************************************************)
FRAME_HEADER_SIZE == 2

FRAME_MASK == <<0, 0, 0, 0>>

CONT == 0

TEXT == 1

BIN == 2

CLOSE == 8

PING == 9

PONG == 10

\* The members of the enumeration _WebSocketFrameType.
FrameTypes == {CONT, TEXT, BIN, CLOSE, PING, PONG}

\* WebSocketHelper.closing_handshake, b"\x88\x80".
closing_handshake == <<136, 128>>

\* WebSocketHelper.opening_handshake: the request is a token, its text is
\* never read back by the client.
opening_handshake == <<"GET">>

(***************************************************************************)
(* Helpers for Python's bytes.                                             *)
(***************************************************************************)
Min(a, b) == IF a < b THEN a ELSE b

\* data[a:b] for 0 <= a: the slice is clamped to the end of data.
Slice(data, a, b) ==
    IF Min(b, Len(data)) <= a THEN <<>> ELSE SubSeq(data, a + 1, Min(b, Len(data)))

\* A value larger than every length the model builds.  Python's integers do
\* not overflow; a length read from the wire that does not fit the model's
\* integers is replaced by this one, which compares with buffer lengths the
\* same way.
HugeLength == 1000000000

\* n.to_bytes(length, byteorder="big") for 0 <= n < 2^31: the byte of weight
\* 256^k is zero for k >= 4.
to_bytes(n, length) ==
    [i \in 1..length |->
        CASE length - i = 0 -> n % 256
          [] length - i = 1 -> (n \div 256) % 256
          [] length - i = 2 -> (n \div 65536) % 256
          [] length - i = 3 -> (n \div 16777216) % 256
          [] OTHER -> 0]

\* int.from_bytes(bs, byteorder="big", signed=False).
RECURSIVE from_bytes(_)
from_bytes(bs) ==
    IF Len(bs) = 0 THEN 0
    ELSE LET high == from_bytes(SubSeq(bs, 1, Len(bs) - 1))
         IN  IF high >= 3906250 THEN HugeLength
             ELSE Min(high * 256 + bs[Len(bs)], HugeLength)

(***************************************************************************)
(* WebSocketHelper: the frame codec.                                       *)
(***************************************************************************)
\* A mutant of pack: the one-byte length tier taken one length too far.
PackMutant(typ, data) ==
    LET data_length == Len(data)
    IN  <<128 + typ>>
        \o (IF data_length <= 126 THEN <<128 + data_length>>
            ELSE IF data_length < 65536
                 THEN <<254>> \o to_bytes(data_length, 2)
                 ELSE <<255>> \o to_bytes(data_length, 8))
        \o FRAME_MASK \o data

pack(typ, data) ==
    LET data_length == Len(data)
    IN  <<128 + typ>>
        \o (IF data_length < 126 THEN <<128 + data_length>>
            ELSE IF data_length < 65536
                 THEN <<254>> \o to_bytes(data_length, 2)
                 ELSE <<255>> \o to_bytes(data_length, 8))
        \o FRAME_MASK \o data

\* The result of unpack_from: err is TRUE when the call raises (reserved
\* bits set, a value that is no _WebSocketFrameType, or an index past the
\* end of data).
Header(typ, length, final) ==
    [err |-> FALSE, typ |-> typ, length |-> length, final |-> final]

Raises == [err |-> TRUE, typ |-> -1, length |-> -1, final |-> FALSE]

unpack_from(data, start) ==
    IF start + 1 >= Len(data) THEN Raises
    ELSE
    LET b0 == data[start + 1]
        b1 == data[start + 2]
        typ == b0 % 16
        length == b1 % 128
        final == (b0 \div 128) = 1
    IN  IF (b0 \div 16) % 8 # 0 THEN Raises
        ELSE IF typ \notin FrameTypes THEN Raises
        ELSE IF length = 126
             THEN IF Len(data) - start > FRAME_HEADER_SIZE + 2
                  THEN Header(typ, from_bytes(Slice(data, start + 2, start + 4)), final)
                  ELSE Header(typ, -1, final)
        ELSE IF length = 127
             THEN IF Len(data) - start > FRAME_HEADER_SIZE + 8
                  THEN Header(typ, from_bytes(Slice(data, start + 2, start + 10)), final)
                  ELSE Header(typ, -1, final)
        ELSE Header(typ, length, final)

(***************************************************************************)
(* WebSocketHelper: the opening handshake.  A response is the text of the  *)
(* received bytes as check_handshake sees it after data.decode() and       *)
(* split("\r\n"): a sequence of lines, each line the sequence of the       *)
(* pieces that the separator ": " divides it into (a line without the      *)
(* separator is one piece, the empty line is the piece "").                *)
(***************************************************************************)
StatusLine == <<"HTTP/1.1 101 Switching Protocols">>

\* WebSocketHelper.__accept, base64(sha1(key + MAGIC)), as a token.
accept == "s3pPLMBiTxaQ9kYGzzhZRbK+xOo="

\* str.lower() on the header names the model's responses use.
lower(key) ==
    CASE key = "Sec-WebSocket-Accept" -> "sec-websocket-accept"
      [] key = "SEC-WEBSOCKET-ACCEPT" -> "sec-websocket-accept"
      [] key = "Upgrade" -> "upgrade"
      [] key = "Connection" -> "connection"
      [] OTHER -> key

\* line.split(": ", 2): at most two cuts, so at most three pieces.
split2(line) ==
    IF Len(line) <= 3 THEN line
    ELSE <<line[1], line[2], "rest">>

\* The loop of check_handshake over response[1:], from line k on.  The
\* unpacking "key, value = ..." raises ValueError unless there are exactly
\* two pieces.
RECURSIVE scan_headers(_, _)
scan_headers(response, k) ==
    IF k > Len(response) THEN "false"
    ELSE LET parts == split2(response[k])
         IN  IF Len(parts) # 2 THEN "raise"
             ELSE IF lower(parts[1]) = "sec-websocket-accept"
                  THEN IF parts[2] = accept THEN "true" ELSE "false"
                  ELSE scan_headers(response, k + 1)

\* "true", "false", or "raise" when the call raises.
check_handshake(response) ==
    IF response[1] # StatusLine THEN "false"
    ELSE scan_headers(response, 2)

(***************************************************************************)
(* WebSocketClient and Recorder.  The methods are operators on a record s  *)
(* that holds the object's fields together with what the methods reach     *)
(* through them:                                                           *)
(*   closing, connection_transport, data, payload, wshandshake, wsping     *)
(*        the fields _closing, _connection_transport ("None" or            *)
(*        "transport"), _data, _payload, _wshandshake, _wsping;            *)
(*   idx, next_recv_ts_ns, recv_interval     the Recorder's fields;        *)
(*   buffer     the list Trader.buffer that Recorder.buffer refers to;     *)
(*   is_closing, log, closes, closing_handshakes     the transport: what   *)
(*        is_closing() answers, the calls made on it in order, and how     *)
(*        often it was closed and handed the closing handshake;            *)
(*   frames, events     a record of the calls of frame_received and of     *)
(*        the callbacks it dispatches to;                                  *)
(*   now     the reading of time.time_ns();                                *)
(*   raised     TRUE when the method ended by raising.                     *)
(***************************************************************************)
Write(data) == [op |-> "write", data |-> data]

TransportClose == [op |-> "close", data |-> <<>>]

\* transport.write(data), on the transport s holds.
transport_write(s, data) ==
    [s EXCEPT !.log = Append(@, Write(data)),
              !.closing_handshakes = @ + (IF data = closing_handshake THEN 1 ELSE 0)]

\* transport.close().
transport_close(s) ==
    [s EXCEPT !.log = Append(@, TransportClose), !.is_closing = TRUE,
              !.closes = @ + 1]

send_data(s, data) ==
    IF s.connection_transport # "None" /\ ~s.is_closing
    THEN transport_write(s, data)
    ELSE s

send_message(s, typ, payload) == send_data(s, pack(typ, payload))

\* A mutant of close: the closing handshake is sent whatever the phase.
CloseMutant(s) ==
    LET s1 == [s EXCEPT !.closing = TRUE]
    IN  IF s1.connection_transport # "None" /\ ~s1.is_closing
        THEN LET s2 == send_data(s1, closing_handshake)
             IN  transport_close(s2)
        ELSE s1

\* A mutant of close: the connection is left as it is.
CloseNothingMutant(s) == s

close(s) ==
    LET s1 == [s EXCEPT !.closing = TRUE]
    IN  IF s1.connection_transport # "None" /\ ~s1.is_closing
        THEN LET s2 == IF ~s1.wshandshake
                       THEN send_data(s1, closing_handshake)
                       ELSE s1
             IN  transport_close(s2)
        ELSE s1

pong(s, payload) == send_message(s, PONG, payload)

\* ping(payload) with a non-empty payload; the default, the millisecond
\* clock as text, is a non-empty payload too.
ping(s, payload) ==
    IF s.wsping = <<>>
    THEN send_message([s EXCEPT !.wsping = payload], PING, payload)
    ELSE s

Event(op, payload) == [op |-> op, payload |-> payload]

\* A mutant of on_message: the payload is appended without the delimiter.
OnMessageMutant(s) ==
    [s EXCEPT !.buffer[s.idx] = @ \o s.payload,
              !.events = Append(@, Event("on_message", s.payload))]

\* Recorder.on_message.
on_message(s) ==
    [s EXCEPT !.buffer[s.idx] = (@ \o s.payload) \o <<0>>,
              !.events = Append(@, Event("on_message", s.payload))]

\* A mutant of on_data_end: the deadline is left as it is.
OnDataEndMutant(s) == s

\* Recorder.on_data_end.
on_data_end(s) == [s EXCEPT !.next_recv_ts_ns = s.now + s.recv_interval]

on_ping(s) ==
    pong([s EXCEPT !.events = Append(@, Event("on_ping", s.payload))], s.payload)

on_pong(s) ==
    LET s1 == [s EXCEPT !.events = Append(@, Event("on_pong", s.payload))]
    IN  IF s1.wsping = <<>> THEN s1
        ELSE IF s1.payload = s1.wsping THEN [s1 EXCEPT !.wsping = <<>>]
        ELSE close(s1)

\* A call of frame_received as the log keeps it: the arguments, the payload
\* bytes they stand for and what _closing was when the call was made.
Frame(typ, start, length, final, bytes, closing) ==
    [typ |-> typ, start |-> start, length |-> length, final |-> final,
     bytes |-> bytes, closing |-> closing]

frame_received(s, typ, start, length, final) ==
    LET bytes == Slice(s.data, start, start + length)
        s1 == [s EXCEPT !.payload = @ \o bytes,
                        !.frames = Append(@, Frame(typ, start, length, final,
                                                   bytes, s.closing))]
    IN  IF final
        THEN LET s2 == CASE typ \in {TEXT, BIN} -> on_message(s1)
                         [] typ = CLOSE -> close(s1)
                         [] typ = PING -> on_ping(s1)
                         [] typ = PONG -> on_pong(s1)
                         [] OTHER -> close(s1)
             IN  [s2 EXCEPT !.payload = <<>>]
        ELSE s1

\* A mutant of the loop condition: the closing flag ends the loop only at
\* bytes that cannot be decoded.
LoopConditionMutant(s, upto) ==
    /\ upto < Len(s.data) - FRAME_HEADER_SIZE
    /\ s.closing => ~unpack_from(s.data, upto).err

\* The condition of the while loop of data_received.
loop_condition(s, upto) ==
    ~s.closing /\ upto < Len(s.data) - FRAME_HEADER_SIZE

\* The while loop of data_received from offset upto on; the result is the
\* state and the offset the loop ends with.
RECURSIVE read_loop(_, _)
read_loop(s, upto) ==
    LET data_length == Len(s.data)
    IN  IF ~loop_condition(s, upto)
        THEN [s |-> s, upto |-> upto]
        ELSE
        LET h == unpack_from(s.data, upto)
        IN  IF h.err THEN read_loop(close(s), upto)
            ELSE IF h.length = -1 \/ upto + FRAME_HEADER_SIZE + h.length > data_length
                 THEN [s |-> s, upto |-> upto]
            ELSE IF h.length < 126
                 THEN read_loop(
                        frame_received(s, h.typ, upto + FRAME_HEADER_SIZE, h.length, h.final),
                        upto + FRAME_HEADER_SIZE + h.length)
            ELSE IF h.length < 65536
                 THEN IF upto + FRAME_HEADER_SIZE + 2 + h.length > data_length
                      THEN [s |-> s, upto |-> upto]
                      ELSE read_loop(
                             frame_received(s, h.typ, upto + FRAME_HEADER_SIZE + 2,
                                            h.length, h.final),
                             upto + FRAME_HEADER_SIZE + 2 + h.length)
            ELSE IF upto + FRAME_HEADER_SIZE + 8 + h.length > data_length
                 THEN [s |-> s, upto |-> upto]
                 ELSE read_loop(
                        frame_received(s, h.typ, upto + FRAME_HEADER_SIZE + 8,
                                       h.length, h.final),
                        upto + FRAME_HEADER_SIZE + 8 + h.length)

\* data_received while handshaking: data is a response.
handshake_received(s, data) ==
    LET r == check_handshake(data)
    IN  IF r = "raise" THEN [s EXCEPT !.raised = TRUE]
        ELSE IF r = "true" THEN [s EXCEPT !.wshandshake = FALSE]
        ELSE close(s)

\* A mutant of data_received: the retained tail is replaced by the new
\* bytes instead of being extended by them.
DataReceivedMutant(s, data) ==
    IF s.wshandshake THEN handshake_received(s, data)
    ELSE LET r == read_loop([s EXCEPT !.data = data], 0)
         IN  on_data_end([r.s EXCEPT !.data = Slice(r.s.data, r.upto, Len(r.s.data))])

data_received(s, data) ==
    IF s.wshandshake THEN handshake_received(s, data)
    ELSE LET r == read_loop([s EXCEPT !.data = @ \o data], 0)
         IN  on_data_end([r.s EXCEPT !.data = Slice(r.s.data, r.upto, Len(r.s.data))])

connection_made(s) ==
    send_data([s EXCEPT !.connection_transport = "transport"], opening_handshake)

connection_lost(s) == [s EXCEPT !.connection_transport = "None"]

(***************************************************************************)
(* The state.                                                              *)
(***************************************************************************)
VARIABLES
    config,     \* Trader.config, the values the core reads
    recorder,   \* per instrument, the fields of its current Recorder
    transport,  \* per instrument, the transport of its current Recorder
    buffer,     \* Trader.buffer, one bytes object per instrument
    frames,     \* per instrument, the calls of frame_received so far
    events,     \* per instrument, the callbacks dispatched so far
    now,        \* the clock, time.time_ns()
    link,       \* per instrument, the connection as the event loop has it
    call,       \* per instrument, the latest call made on its Recorder
    sample,     \* codec harness: the (type, payload) pair handed to pack
    wire,       \* the bytes a peer puts on the wire: pack's result, a stream
    stream,     \* stream harness: the frames the stream is made of
    delivered,  \* stream harness: per instrument, the bytes handed over
    task,       \* per instrument, the task that runs __run_recorder
    loop,       \* the event loop: "running", "stopped" or "closed"
    flush,      \* the task that runs Trader.run: its position and locals
    files       \* per instrument, the segment files written, oldest first

vars ==
    <<config, recorder, transport, buffer, frames, events, now, link, call,
      sample, wire, stream, delivered, task, loop, flush, files>>

\* The configuration the connection-level specifications run under; the
\* intervals are in ticks of the clock.
DefaultConfig ==
    [recv_interval |-> 2, maximum_reconnect_tries |-> 2,
     create_connection_timeout |-> 1,
     check_ping_interval |-> 1, check_recv_interval |-> 1,
     reconnect_cooldown |-> 1]

\* What the latest liveness cycle of a task saw: whether its ping was
\* written, whether the handshake was over then (open) and when the wait
\* began (since), whether bytes were received on
\* the open connection during the wait and when the last of them were,
\* whether the pong that carries the token was among them, when the wait
\* ended (at) and how (verdict).
NoCycle ==
    [sent |-> FALSE, open |-> FALSE, since |-> 0, heard |-> FALSE,
     pong |-> FALSE, last |-> 0, at |-> 0, verdict |-> "none"]

\* The task of __run_recorder before its first step.  fault is the time at
\* which a data_received closed the task's latest connection, -1 when none
\* has; it is kept until the next create_connection has ended.
NewTask ==
    [pc |-> "start", attempts |-> 0, cooldowns |-> 0, connected |-> 0,
     wake |-> 0, cycle |-> NoCycle, fault |-> -1]

\* Recorder.__init__ followed by WebSocketClient.__init__.
NewRecorder(i, cfg, t) ==
    [closing |-> FALSE, connection_transport |-> "None", data |-> <<>>,
     payload |-> <<>>, wshandshake |-> TRUE, wsping |-> <<>>,
     idx |-> i, next_recv_ts_ns |-> t + cfg.recv_interval,
     recv_interval |-> cfg.recv_interval]

\* The transport create_connection hands to connection_made.
NewTransport ==
    [is_closing |-> FALSE, log |-> <<>>, closes |-> 0, closing_handshakes |-> 0]

\* The record the methods work on, for instrument i's Recorder.
World(i) ==
    [closing |-> recorder[i].closing,
     connection_transport |-> recorder[i].connection_transport,
     data |-> recorder[i].data,
     payload |-> recorder[i].payload,
     wshandshake |-> recorder[i].wshandshake,
     wsping |-> recorder[i].wsping,
     idx |-> recorder[i].idx,
     next_recv_ts_ns |-> recorder[i].next_recv_ts_ns,
     recv_interval |-> recorder[i].recv_interval,
     buffer |-> buffer,
     is_closing |-> transport[i].is_closing,
     log |-> transport[i].log,
     closes |-> transport[i].closes,
     closing_handshakes |-> transport[i].closing_handshakes,
     frames |-> frames[i],
     events |-> events[i],
     now |-> now,
     raised |-> FALSE]

\* The state after a method of instrument i's Recorder has returned s.  A
\* method that raised is a callback of the transport: the event loop then
\* aborts the transport.
Commit(i, s) ==
    /\ recorder' = [recorder EXCEPT ![i] =
            [closing |-> s.closing,
             connection_transport |-> s.connection_transport,
             data |-> s.data,
             payload |-> s.payload,
             wshandshake |-> s.wshandshake,
             wsping |-> s.wsping,
             idx |-> s.idx,
             next_recv_ts_ns |-> s.next_recv_ts_ns,
             recv_interval |-> s.recv_interval]]
    /\ transport' = [transport EXCEPT ![i] =
            [is_closing |-> s.is_closing \/ s.raised,
             log |-> IF s.raised
                     THEN Append(s.log, [op |-> "abort", data |-> <<>>])
                     ELSE s.log,
             closes |-> s.closes,
             closing_handshakes |-> s.closing_handshakes]]
    /\ buffer' = s.buffer
    /\ frames' = [frames EXCEPT ![i] = s.frames]
    /\ events' = [events EXCEPT ![i] = s.events]

\* What call holds: the method, its argument, and the Recorder and the
\* transport as they were when it was entered.
Call(op, data, i) ==
    [op |-> op, data |-> data, recorder |-> recorder[i],
     transport |-> transport[i], buffer |-> buffer[i]]

NoCall ==
    [op |-> "none", data |-> <<>>, recorder |-> <<>>, transport |-> <<>>,
     buffer |-> <<>>]

\* Every instrument has a fresh Recorder and an empty buffer slot.
ObjectsInit ==
    /\ config = DefaultConfig
    /\ now = 0
    /\ recorder = [i \in Instruments |-> NewRecorder(i, DefaultConfig, 0)]
    /\ transport = [i \in Instruments |-> NewTransport]
    /\ buffer = [i \in Instruments |-> <<>>]
    /\ frames = [i \in Instruments |-> <<>>]
    /\ events = [i \in Instruments |-> <<>>]
    /\ link = [i \in Instruments |-> "none"]
    /\ call = [i \in Instruments |-> NoCall]

CodecIdle == sample = [pc |-> "idle", typ |-> TEXT, payload |-> <<>>]

StreamIdle ==
    /\ stream = <<>>
    /\ delivered = [i \in Instruments |-> 0]

\* The flush task of Trader.run when it first sleeps: idx and length are
\* the locals of its for loop, data is the argument of f.write; snap is the
\* buffer slot as it was when length was taken and appended the bytes the
\* slot has gained since; count numbers the messages the Recorders have
\* delivered and discarded is what count was at the first wake; since is
\* the time at which the sleep was begun and names are the values of
\* cur_time, the file name, of the wakes that wrote files.
NewFlush ==
    [pc |-> "sleep", first_time |-> TRUE, idx |-> 1, length |-> 0,
     data |-> <<>>, cycle |-> 0, snap |-> <<>>, appended |-> <<>>,
     count |-> 0, discarded |-> 0, since |-> 0, names |-> <<>>]

\* No flush task runs.
FlushIdle ==
    /\ flush = NewFlush
    /\ files = [i \in Instruments |-> <<>>]

\* No supervisor runs: the connection is driven by hand.
TraderIdle ==
    /\ task = [i \in Instruments |-> NewTask]
    /\ loop = "running"
    /\ FlushIdle

\* The variables of the harnesses and of the Trader, which the connection's
\* own steps leave alone.
harness == <<sample, wire, stream, delivered>>

flusher == <<flush, files>>

trader == <<task, loop, flusher>>

\* A response that passes check_handshake.
GoodResponse ==
    <<StatusLine, <<"Upgrade", "websocket">>, <<"Connection", "Upgrade">>,
      <<"Sec-WebSocket-Accept", accept>>, <<"">>, <<"">>>>

(***************************************************************************)
(* The codec harness: a frame built by pack is handed to the data_received *)
(* of an open connection.                                                  *)
(***************************************************************************)
\* The payload lengths at the edges of the three length tiers.
CodecLengths == {0, 1, 125, 126, 65535, 65536}

\* The first byte of the harness's payloads.
CodecSeeds == {1, 77, 200}

\* A payload of the given length whose bytes differ from their neighbours.
CodecPayload(length, seed) == [k \in 1..length |-> (seed + k - 1) % 256]

CodecInit ==
    /\ ObjectsInit
    /\ StreamIdle
    /\ TraderIdle
    /\ wire = <<>>
    /\ \E typ \in FrameTypes, length \in CodecLengths, seed \in CodecSeeds :
          sample = [pc |-> "new", typ |-> typ, payload |-> CodecPayload(length, seed)]

CodecConnect ==
    /\ sample.pc = "new"
    /\ Commit(1, connection_made(World(1)))
    /\ sample' = [sample EXCEPT !.pc = "handshaking"]
    /\ UNCHANGED <<config, now, link, call, wire, stream, delivered, trader>>

CodecHandshake ==
    /\ sample.pc = "handshaking"
    /\ Commit(1, data_received(World(1), GoodResponse))
    /\ sample' = [sample EXCEPT !.pc = "open"]
    /\ UNCHANGED <<config, now, link, call, wire, stream, delivered, trader>>

CodecRoundTrip ==
    /\ sample.pc = "open"
    /\ wire' = pack(sample.typ, sample.payload)
    /\ Commit(1, data_received(World(1), wire'))
    /\ sample' = [sample EXCEPT !.pc = "done"]
    /\ UNCHANGED <<config, now, link, call, stream, delivered, trader>>

CodecNext == CodecConnect \/ CodecHandshake \/ CodecRoundTrip

SpecCodec == CodecInit /\ [][CodecNext]_vars

\* C1 as stated: decoding pack(type, payload) with the client's decode path
\* (unpack_from, then the slice data_received takes) gives back the type, the
\* length and the payload bytes.
C1_RoundTripAsStated ==
    sample.pc = "done" =>
        /\ Len(frames[1]) >= 1
        /\ frames[1][1].typ = sample.typ
        /\ frames[1][1].length = Len(sample.payload)
        /\ frames[1][1].bytes = sample.payload

\* C1 amended: the decode path gives back the type, the length and FIN; the
\* slice data_received takes begins at the four zero bytes of the mask field
\* that pack writes after the header, and the payload bytes lie four bytes
\* after the position data_received computes.
C1_RoundTripAmended ==
    sample.pc = "done" =>
        /\ Len(frames[1]) >= 1
        /\ frames[1][1].typ = sample.typ
        /\ frames[1][1].length = Len(sample.payload)
        /\ frames[1][1].final
        /\ frames[1][1].bytes
             = Slice(FRAME_MASK \o sample.payload, 0, Len(sample.payload))
        /\ Slice(wire, frames[1][1].start + 4,
                 frames[1][1].start + 4 + frames[1][1].length) = sample.payload

\* C1 witness: a payload of the two-byte length tier has been packed and
\* decoded.
C1_Witness ==
    /\ sample.pc = "done"
    /\ Len(sample.payload) = 126
    /\ Len(frames[1]) >= 1
    /\ frames[1][1].length = 126

(***************************************************************************)
(* One connection: the callbacks the event loop makes on a Recorder and    *)
(* the calls the supervisor makes on it, in any order.  Each call opens a  *)
(* new window of observation: frames, events and the transport's log hold  *)
(* what the latest call did, call holds the call and the state it found.   *)
(***************************************************************************)
\* The instrument whose connection the connection-level specifications run.
Conn == 1

\* No read is delivered once the buffer slot, the fragment accumulator or
\* the retained tail is longer than this.
MaxBuffer == 1

MaxPayload == 1

MaxTail == 2

\* The token of the supervisor's pings (the default is the clock as text).
Token == <<116>>

\* A frame as a server writes it: no mask, the shortest length field.
ServerFrame(fin, rsv, opcode, payload) ==
    <<fin * 128 + rsv * 16 + opcode>>
    \o (IF Len(payload) < 126 THEN <<Len(payload)>>
        ELSE IF Len(payload) < 65536 THEN <<126>> \o to_bytes(Len(payload), 2)
        ELSE <<127>> \o to_bytes(Len(payload), 8))
    \o payload

\* The frames a read of the connection-level specification is made of: data
\* frames, final or not, and final control frames, each empty or with one
\* byte; the pong that answers the supervisor's ping; a frame of an unknown
\* type and a frame with a reserved bit set.
ReadFrames ==
    {ServerFrame(fin, 0, opcode, p) :
        fin \in 0..1, opcode \in {CONT, TEXT}, p \in {<<>>, <<97>>}}
    \cup {ServerFrame(1, 0, opcode, p) :
        opcode \in {CLOSE, PING, PONG}, p \in {<<>>, <<97>>}}
    \cup {ServerFrame(1, 0, BIN, <<97>>), ServerFrame(1, 0, PONG, Token),
          ServerFrame(1, 0, 3, <<97>>), ServerFrame(1, 1, TEXT, <<97>>)}

\* The frames of the reads that hold two frames.
PairFrames ==
    {ServerFrame(1, 0, TEXT, <<97>>), ServerFrame(0, 0, TEXT, <<97>>),
     ServerFrame(1, 0, CONT, <<97>>), ServerFrame(1, 0, PING, <<>>),
     ServerFrame(1, 0, CLOSE, <<>>)}

Reads == ReadFrames \cup {a \o b : a \in PairFrames, b \in PairFrames}

\* The responses to the opening handshake.
Responses ==
    { GoodResponse,
      <<StatusLine, <<"sec-websocket-accept", accept>>, <<"">>, <<"">>>>,
      <<StatusLine, <<"Upgrade", "websocket">>, <<"SEC-WEBSOCKET-ACCEPT", accept>>,
        <<"">>, <<"">>>>,
      <<<<"HTTP/1.1 400 Bad Request">>, <<"Sec-WebSocket-Accept", accept>>,
        <<"">>, <<"">>>>,
      <<<<"HTTP/1.1 101 switching protocols">>, <<"Sec-WebSocket-Accept", accept>>,
        <<"">>, <<"">>>>,
      <<StatusLine, <<"Upgrade", "websocket">>,
        <<"Sec-WebSocket-Accept", "AAAAAAAAAAAAAAAAAAAAAAAAAAA=">>, <<"">>, <<"">>>>,
      <<StatusLine, <<"Upgrade", "websocket">>, <<"Connection", "Upgrade">>,
        <<"">>, <<"">>>>,
      <<StatusLine, <<"Upgrade", "websocket">>>>,
      <<StatusLine>> }

\* The state a call works on: the window of observation is new.
Window(i) ==
    [World(i) EXCEPT !.frames = <<>>, !.events = <<>>, !.log = <<>>]

ConnInit == ObjectsInit /\ CodecIdle /\ StreamIdle /\ TraderIdle /\ wire = <<>>

\* create_connection has the transport and calls connection_made.
ConnectionMade(i) ==
    /\ link[i] = "none"
    /\ Commit(i, connection_made(Window(i)))
    /\ link' = [link EXCEPT ![i] = "made"]
    /\ call' = [call EXCEPT ![i] = Call("connection_made", <<>>, i)]
    /\ UNCHANGED <<config, now, harness, trader>>

\* The event loop hands received bytes to data_received: a response while
\* the Recorder is handshaking, frames afterwards.
DataReceived(i) ==
    /\ link[i] = "made"
    /\ Len(buffer[i]) <= MaxBuffer
    /\ Len(recorder[i].payload) <= MaxPayload
    /\ Len(recorder[i].data) <= MaxTail
    /\ \E d \in (IF recorder[i].wshandshake THEN Responses ELSE Reads) :
          /\ Commit(i, data_received(Window(i), d))
          /\ call' = [call EXCEPT ![i] = Call("data_received", d, i)]
    /\ UNCHANGED <<config, now, link, harness, trader>>

\* The supervisor's recorder.ping().
SupervisorPing(i) ==
    /\ link[i] \in {"made", "lost"}
    /\ Commit(i, ping(Window(i), Token))
    /\ call' = [call EXCEPT ![i] = Call("ping", Token, i)]
    /\ UNCHANGED <<config, now, link, harness, trader>>

\* The supervisor's recorder.close().
SupervisorClose(i) ==
    /\ link[i] \in {"made", "lost"}
    /\ Commit(i, close(Window(i)))
    /\ call' = [call EXCEPT ![i] = Call("close", <<>>, i)]
    /\ UNCHANGED <<config, now, link, harness, trader>>

\* The peer ends the stream or the transport fails: the event loop closes
\* the transport.
TransportFails(i) ==
    /\ link[i] = "made"
    /\ ~transport[i].is_closing
    /\ transport' = [transport EXCEPT ![i].is_closing = TRUE]
    /\ UNCHANGED <<config, recorder, buffer, frames, events, now, link, call,
                   harness, trader>>

\* The event loop calls connection_lost once the transport is closed.
ConnectionLost(i) ==
    /\ link[i] = "made"
    /\ transport[i].is_closing
    /\ Commit(i, connection_lost(Window(i)))
    /\ link' = [link EXCEPT ![i] = "lost"]
    /\ call' = [call EXCEPT ![i] = Call("connection_lost", <<>>, i)]
    /\ UNCHANGED <<config, now, harness, trader>>

Next ==
    \/ ConnectionMade(Conn)
    \/ DataReceived(Conn)
    \/ SupervisorPing(Conn)
    \/ SupervisorClose(Conn)
    \/ TransportFails(Conn)
    \/ ConnectionLost(Conn)

Spec == ConnInit /\ [][Next]_vars

(***************************************************************************)
(* The header harness: an open connection is handed one frame whose first  *)
(* byte is any byte at all.                                                *)
(***************************************************************************)
\* Every FIN, every reserved-bit pattern and every opcode, with a payload of
\* zero or one byte.
HeaderFrames ==
    {ServerFrame(fin, rsv, opcode, p) :
        fin \in 0..1, rsv \in 0..7, opcode \in 0..15, p \in {<<>>, <<97>>}}

HeaderHandshake ==
    /\ link[Conn] = "made"
    /\ recorder[Conn].wshandshake
    /\ Commit(Conn, data_received(Window(Conn), GoodResponse))
    /\ call' = [call EXCEPT ![Conn] = Call("data_received", GoodResponse, Conn)]
    /\ UNCHANGED <<config, now, link, harness, trader>>

HeaderRead ==
    /\ link[Conn] = "made"
    /\ ~recorder[Conn].wshandshake
    /\ call[Conn].data = GoodResponse
    /\ \E d \in HeaderFrames :
          /\ Commit(Conn, data_received(Window(Conn), d))
          /\ call' = [call EXCEPT ![Conn] = Call("data_received", d, Conn)]
    /\ UNCHANGED <<config, now, link, harness, trader>>

HeaderNext == ConnectionMade(Conn) \/ HeaderHandshake \/ HeaderRead

SpecHeader == ConnInit /\ [][HeaderNext]_vars

(***************************************************************************)
(* The stream harness: a stream of well-formed server frames is handed to  *)
(* two open connections.  The second instrument's Recorder receives it in  *)
(* one data_received call, the first one's in two or more calls, cut at    *)
(* any point near the frame boundaries.  frames, events and the transport's *)
(* log are cumulative here.                                                *)
(***************************************************************************)
\* The longest stream of short and medium frames.
MaxFrames == 3

\* A stream is cut at most this far from a frame boundary: the longest
\* header is 10 bytes.
CutMargin == 11

Split == 1

Whole == 2

\* A frame of a stream: FIN, the type, and the payload as CodecPayload
\* builds it.
StreamFrame(fin, opcode, length, seed) ==
    [fin |-> fin, opcode |-> opcode, length |-> length, seed |-> seed]

\* Data frames, final or not, an empty ping, the pong of the supervisor's
\* ping, a close frame and a frame of the two-byte length tier.
ShortFrames ==
    {StreamFrame(1, TEXT, 1, 97), StreamFrame(0, TEXT, 1, 98),
     StreamFrame(1, CONT, 1, 99), StreamFrame(1, PING, 0, 0),
     StreamFrame(1, PONG, 1, 116), StreamFrame(1, CLOSE, 0, 0),
     StreamFrame(1, BIN, 126, 1)}

\* The frame of the eight-byte length tier.
LongFrame == StreamFrame(1, TEXT, 65536, 1)

Streams ==
    UNION {[1..n -> ShortFrames] : n \in 1..MaxFrames}
    \cup {<<LongFrame>>, <<StreamFrame(0, TEXT, 1, 98), LongFrame>>,
          <<LongFrame, StreamFrame(1, PING, 0, 0)>>}

\* The bytes of a frame and of a stream.
FrameBytes(f) == ServerFrame(f.fin, 0, f.opcode, CodecPayload(f.length, f.seed))

RECURSIVE StreamBytes(_)
StreamBytes(fs) ==
    IF fs = <<>> THEN <<>>
    ELSE StreamBytes(SubSeq(fs, 1, Len(fs) - 1)) \o FrameBytes(fs[Len(fs)])

\* The size on the wire of a server frame with a payload of the given length.
WireSize(length) ==
    FRAME_HEADER_SIZE + length
    + (IF length < 126 THEN 0 ELSE IF length < 65536 THEN 2 ELSE 8)

\* The offset in the stream at which its k-th frame ends.
RECURSIVE Boundary(_, _)
Boundary(fs, k) ==
    IF k = 0 THEN 0 ELSE Boundary(fs, k - 1) + WireSize(fs[k].length)

\* The offsets a read may end at.
CutPoints ==
    UNION {{q \in (Boundary(stream, k) - CutMargin)
                  ..(Boundary(stream, k) + CutMargin) :
               q >= 1 /\ q <= Len(wire)} : k \in 0..Len(stream)}

StreamInit ==
    /\ ObjectsInit
    /\ CodecIdle
    /\ TraderIdle
    /\ delivered = [i \in Instruments |-> 0]
    /\ \E fs \in Streams :
          /\ stream = fs
          /\ wire = StreamBytes(fs)

\* The Whole connection runs first, the Split one after it.
StreamConnect(i) ==
    /\ link[i] = "none"
    /\ i = Split => delivered[Whole] = Len(wire)
    /\ Commit(i, connection_made(World(i)))
    /\ link' = [link EXCEPT ![i] = "made"]
    /\ UNCHANGED <<config, now, call, harness, trader>>

StreamHandshake(i) ==
    /\ link[i] = "made"
    /\ recorder[i].wshandshake
    /\ Commit(i, data_received(World(i), GoodResponse))
    /\ UNCHANGED <<config, now, link, call, harness, trader>>

\* The supervisor's ping is outstanding when the stream begins: the first
\* pong of the stream answers it, a later one finds none outstanding.
StreamPing(i) ==
    /\ link[i] = "made"
    /\ ~recorder[i].wshandshake
    /\ call[i].op = "none"
    /\ Commit(i, ping(World(i), Token))
    /\ call' = [call EXCEPT ![i] = [NoCall EXCEPT !.op = "ping"]]
    /\ UNCHANGED <<config, now, link, harness, trader>>

\* data_received with the bytes of the stream from delivered[i] up to q.
StreamDeliver(i) ==
    /\ link[i] = "made"
    /\ ~recorder[i].wshandshake
    /\ call[i].op = "ping"
    /\ delivered[i] < Len(wire)
    /\ \E q \in (IF i = Whole THEN {Len(wire)} ELSE CutPoints) :
          /\ q > delivered[i]
          /\ i = Split => q - delivered[i] < Len(wire)
          /\ Commit(i, data_received(World(i), Slice(wire, delivered[i], q)))
          /\ delivered' = [delivered EXCEPT ![i] = q]
    /\ UNCHANGED <<config, now, link, call, sample, wire, stream, trader>>

StreamNext ==
    \E i \in {Split, Whole} :
        StreamConnect(i) \/ StreamHandshake(i) \/ StreamPing(i) \/ StreamDeliver(i)

SpecStream == StreamInit /\ [][StreamNext]_vars

\* What the claim compares of a dispatched frame: its type, FIN and payload.
Dispatched(i) ==
    [k \in 1..Len(frames[i]) |->
        [typ |-> frames[i][k].typ, final |-> frames[i][k].final,
         bytes |-> frames[i][k].bytes]]

\* The offset in the stream at which the k-th dispatched frame ends.
RECURSIVE DispatchedEnd(_, _)
DispatchedEnd(i, k) ==
    IF k = 0 THEN 0 ELSE DispatchedEnd(i, k - 1) + WireSize(frames[i][k].length)

\* C2: however the stream is cut into reads, (1) a frame with a two-byte or
\* eight-byte length field is dispatched only when all of its bytes have
\* been delivered, with the payload the stream holds, and (2) once the
\* whole stream is delivered the dispatched frames and the delivered
\* messages are those of the single read of the whole stream.
C2_SplitReadEquivalence ==
    /\ \A k \in 1..Len(frames[Split]) :
          frames[Split][k].length >= 126 =>
              /\ DispatchedEnd(Split, k) <= delivered[Split]
              /\ frames[Split][k].bytes
                   = Slice(wire, DispatchedEnd(Split, k) - frames[Split][k].length,
                           DispatchedEnd(Split, k))
    /\ delivered[Split] = Len(wire) =>
          /\ Dispatched(Split) = Dispatched(Whole)
          /\ events[Split] = events[Whole]
          /\ buffer[Split] = buffer[Whole]

\* C2 witness: a stream of a fragment and a frame of the two-byte tier has
\* been delivered whole in several reads, and both frames were dispatched.
C2_Witness ==
    /\ delivered[Split] = Len(wire)
    /\ Len(stream) = 2
    /\ Len(frames[Split]) = 2
    /\ frames[Split][2].length = 126
    /\ events[Split] # <<>>

(***************************************************************************)
(* What the claims speak of.                                               *)
(***************************************************************************)
\* The latest call on the connection is a data_received that found it open,
\* not closing, with a live transport and nothing retained from earlier
\* reads.
ReadOnOpen ==
    /\ call[Conn].op = "data_received"
    /\ ~call[Conn].recorder.wshandshake
    /\ ~call[Conn].recorder.closing
    /\ call[Conn].recorder.connection_transport # "None"
    /\ ~call[Conn].transport.is_closing
    /\ call[Conn].recorder.data = <<>>

\* The reserved bits of a frame's first byte.
Rsv(frame) == (frame[1] \div 16) % 8

\* C3 as stated: a received frame with a reserved bit set, whatever its
\* opcode and FIN, is never dispatched, and the connection is closed.
C3_ReservedBitsAsStated ==
    (ReadOnOpen /\ call[Conn].data \in HeaderFrames /\ Rsv(call[Conn].data) # 0) =>
        /\ frames[Conn] = <<>>
        /\ events[Conn] = <<>>
        /\ recorder[Conn].closing
        /\ transport[Conn].is_closing

\* A message in two fragments: a non-final text frame, a final continuation.
Fragmented == ServerFrame(0, 0, TEXT, <<97>>) \o ServerFrame(1, 0, CONT, <<97>>)

\* C4 as stated: when the fragments of a message have arrived, the Recorder
\* callback has run exactly once with the concatenated payload, the
\* accumulator is empty and the connection is still open.
C4_ReassemblyAsStated ==
    (ReadOnOpen /\ call[Conn].recorder.payload = <<>> /\ call[Conn].data = Fragmented) =>
        /\ events[Conn] = <<Event("on_message", <<97, 97>>)>>
        /\ buffer[Conn] = call[Conn].buffer \o <<97, 97, 0>>
        /\ recorder[Conn].payload = <<>>
        /\ ~recorder[Conn].closing

\* A response that the handshake is specified to accept: the status line
\* is exact and a sec-websocket-accept header, in any case, has the expected
\* value.
ValidResponse(response) ==
    /\ response[1] = StatusLine
    /\ \E k \in 2..Len(response) :
          /\ Len(response[k]) = 2
          /\ lower(response[k][1]) = "sec-websocket-accept"
          /\ response[k][2] = accept

\* The latest call is the data_received of the first bytes after the opening
\* handshake was sent.
FirstResponse ==
    /\ call[Conn].op = "data_received"
    /\ call[Conn].recorder.wshandshake
    /\ ~call[Conn].recorder.closing
    /\ ~call[Conn].transport.is_closing

\* C9 as stated: the connection becomes open only on a valid response; on
\* every other response it does not become open and close() is invoked,
\* which closes the transport without the closing-handshake frame.
C9_HandshakeOutcomeAsStated ==
    /\ call[Conn].op = "connection_made" =>
          transport[Conn].log = <<Write(opening_handshake)>>
    /\ FirstResponse =>
          IF ValidResponse(call[Conn].data)
          THEN ~recorder[Conn].wshandshake /\ ~recorder[Conn].closing
          ELSE /\ recorder[Conn].wshandshake
               /\ recorder[Conn].closing
               /\ transport[Conn].log = <<TransportClose>>

\* The payload of a frame of at most 125 bytes.
ShortPayload(frame) == SubSeq(frame, 3, Len(frame))

\* C10 as stated: every final ping frame received on an open, non-closing
\* connection, also between the fragments of a message, is answered by
\* exactly one pong frame with the ping's payload.
C10_PingReplyAsStated ==
    (/\ ReadOnOpen
     /\ call[Conn].data = ServerFrame(1, 0, PING, <<97>>)) =>
        transport[Conn].log = <<Write(pack(PONG, ShortPayload(call[Conn].data)))>>

\* The places of the transport's log, in the latest call, where the
\* transport was closed.
ClosePlaces == {k \in 1..Len(transport[Conn].log) : transport[Conn].log[k].op = "close"}

\* The places where the closing-handshake frame was written.
ClosingHandshakePlaces ==
    {k \in 1..Len(transport[Conn].log) :
        transport[Conn].log[k] = Write(closing_handshake)}

\* C8: over all calls of close(), from the supervisor, a close frame or a
\* protocol error, the transport is closed at most once and the closing
\* handshake is written at most once; the call that closes the transport
\* writes the closing handshake, just before closing, exactly if the opening
\* handshake had completed; once the transport is closing a call writes
\* nothing and closes nothing, and a later close() changes no state.
C8_CloseIdempotent ==
    /\ transport[Conn].closes <= 1
    /\ transport[Conn].closing_handshakes <= transport[Conn].closes
    /\ Cardinality(ClosePlaces) <= 1
    /\ \A k \in ClosePlaces :
          IF recorder[Conn].wshandshake
          THEN ClosingHandshakePlaces = {}
          ELSE ClosingHandshakePlaces = {k - 1}
    /\ ClosePlaces = {} => ClosingHandshakePlaces = {}
    /\ (call[Conn].op # "none" /\ call[Conn].op # "connection_made"
            /\ call[Conn].transport.is_closing) =>
          \A k \in 1..Len(transport[Conn].log) :
              transport[Conn].log[k].op \notin {"write", "close"}
    /\ (call[Conn].op = "close" /\ call[Conn].transport.closes >= 1) =>
          /\ recorder[Conn] = call[Conn].recorder
          /\ transport[Conn].closes = call[Conn].transport.closes
          /\ transport[Conn].closing_handshakes
               = call[Conn].transport.closing_handshakes
          /\ transport[Conn].is_closing
          /\ buffer[Conn] = call[Conn].buffer

\* C8 witness: close() was called on a connection that had completed the
\* handshake and whose transport an earlier close() had already closed,
\* after writing the closing handshake.
C8_Witness ==
    /\ call[Conn].op = "close"
    /\ ~call[Conn].recorder.wshandshake
    /\ call[Conn].transport.closes = 1
    /\ call[Conn].transport.closing_handshakes = 1
    /\ transport[Conn].closes = 1
(***************************************************************************)
(* The supervisor: the task of __run_recorder for one instrument, the      *)
(* clock, and the connection's callbacks.  A step of the task runs from    *)
(* one await to the next; a sleeping task wakes when its time has come.    *)
(* Intervals are in ticks of the clock.                                    *)
(***************************************************************************)
\* The largest interval and attempt budget of a configuration.
MaxInterval == 2

MaxTries == 2

\* The clock stops here.
MaxTime == 7

\* The configurations: the intervals and the budget are the smallest and
\* the largest ones, the cooldown is as long as the wait for a pong.
SupConfigs ==
    {[recv_interval |-> r, maximum_reconnect_tries |-> k,
      create_connection_timeout |-> 1,
      check_ping_interval |-> p, check_recv_interval |-> 1,
      reconnect_cooldown |-> p] :
        r \in {1, MaxInterval}, k \in {1, MaxTries}, p \in {1, MaxInterval}}

\* The pong that carries the token of the supervisor's ping.
PongFrame == ServerFrame(1, 0, PONG, Token)

\* What the server sends on an open connection under the supervisor.
SupReads ==
    {PongFrame, ServerFrame(1, 0, PONG, <<97>>), ServerFrame(1, 0, TEXT, <<97>>),
     ServerFrame(0, 0, TEXT, <<97>>), ServerFrame(1, 0, 3, <<97>>),
     ServerFrame(1, 1, TEXT, <<97>>)}

SupResponses == {GoodResponse, <<StatusLine>>}

SupInit ==
    /\ CodecIdle /\ StreamIdle /\ wire = <<>>
    /\ now = 0
    /\ \E cfg \in SupConfigs :
          /\ config = cfg
          /\ recorder = [i \in Instruments |-> NewRecorder(i, cfg, 0)]
    /\ transport = [i \in Instruments |-> NewTransport]
    /\ buffer = [i \in Instruments |-> <<>>]
    /\ frames = [i \in Instruments |-> <<>>]
    /\ events = [i \in Instruments |-> <<>>]
    /\ link = [i \in Instruments |-> "none"]
    /\ call = [i \in Instruments |-> NoCall]
    /\ TraderIdle

\* A mutant of the deadline test: the deadline has passed by more than a tick.
StalledLateMutant(s) == s.now > s.next_recv_ts_ns + 1

\* time.time_ns() > recorder.next_recv_ts_ns.
StalledMutant(s) == s.now >= s.next_recv_ts_ns

stalled(s) == s.now > s.next_recv_ts_ns

\* The for loop has an iteration left.
\* A mutant of the loop's range: an attempt that connected is not counted.
TriesLeftConnectedMutant(t) ==
    t.attempts - t.connected < config.maximum_reconnect_tries

TriesLeftMutant(t) == t.attempts <= config.maximum_reconnect_tries

tries_left(t) == t.attempts < config.maximum_reconnect_tries

\* The top of the for loop, for the task record t: the next attempt begins
\* with a new Recorder and create_connection, or the loop is over and the
\* event loop is stopped.
NextAttempt(i, t) ==
    IF tries_left(t)
    THEN /\ task' = [task EXCEPT ![i] =
                [t EXCEPT !.pc = "connecting", !.attempts = @ + 1,
                          !.wake = now + config.create_connection_timeout,
                          !.cycle = NoCycle]]
         /\ recorder' = [recorder EXCEPT ![i] = NewRecorder(i, config, now)]
         /\ transport' = [transport EXCEPT ![i] = NewTransport]
         /\ link' = [link EXCEPT ![i] = "none"]
         /\ frames' = [frames EXCEPT ![i] = <<>>]
         /\ events' = [events EXCEPT ![i] = <<>>]
         /\ call' = [call EXCEPT ![i] = NoCall]
         /\ UNCHANGED loop
    ELSE /\ task' = [task EXCEPT ![i] = [t EXCEPT !.pc = "stopped"]]
         /\ loop' = "stopped"
         /\ UNCHANGED <<recorder, transport, link, frames, events, call>>

\* The top of the while loop on the state s that op has left: a ping and
\* the wait for its answer when the deadline has passed, the poll sleep
\* otherwise.
LivenessCheck(i, s, t, op) ==
    IF stalled(s)
    THEN LET s1 == ping(s, Token)
         IN  /\ Commit(i, s1)
             /\ call' = [call EXCEPT ![i] = Call("ping", Token, i)]
             /\ task' = [task EXCEPT ![i] =
                    [t EXCEPT !.pc = "ping_wait",
                              !.wake = now + config.check_ping_interval,
                              !.cycle = [NoCycle EXCEPT
                                  !.sent = (s1.log # s.log),
                                  !.open = ~s.wshandshake,
                                  !.since = now,
                                  !.verdict = "wait"]]]
    ELSE /\ Commit(i, s)
         /\ call' = [call EXCEPT ![i] = Call(op, <<>>, i)]
         /\ task' = [task EXCEPT ![i] =
                [t EXCEPT !.pc = "recv_wait",
                          !.wake = now + config.check_recv_interval]]

\* A mutant of the event loop: callbacks run on after loop.close().
AliveMutant == TRUE

\* The event loop of Application.run still runs callbacks: run_forever
\* runs them until loop.stop() is called and then ends the batch it is in,
\* and run_until_complete(loop.shutdown_asyncgens()) runs the loop once more
\* before loop.close().  Timers that are not yet due are not waited for.
Alive == loop # "closed"

Running(i) == Alive /\ task[i].pc # "stopped"

\* The task's first step.
SupStart(i) ==
    /\ Running(i)
    /\ task[i].pc = "start"
    /\ NextAttempt(i, task[i])
    /\ UNCHANGED <<config, buffer, now, harness, flusher>>

\* create_connection succeeds: the event loop has called connection_made,
\* the task enters the while loop.
SupConnected(i) ==
    /\ Running(i)
    /\ task[i].pc = "connecting"
    /\ link' = [link EXCEPT ![i] = "made"]
    /\ LivenessCheck(i, connection_made(Window(i)),
                     [task[i] EXCEPT !.connected = @ + 1, !.fault = -1],
                     "connection_made")
    /\ UNCHANGED <<config, now, loop, harness, flusher>>

\* create_connection raises OSError, or TimeoutError when the timeout has
\* come: the attempt is over, the finally clause sleeps.
SupConnectFails(i) ==
    /\ Running(i)
    /\ task[i].pc = "connecting"
    /\ task' = [task EXCEPT ![i].pc = "cooldown",
                            ![i].wake = now + config.reconnect_cooldown,
                            ![i].fault = -1]
    /\ UNCHANGED <<config, recorder, transport, buffer, frames, events, now,
                   link, call, loop, harness, flusher>>

\* The poll sleep is over.
SupAfterRecvSleep(i) ==
    /\ Running(i)
    /\ task[i].pc = "recv_wait"
    /\ now >= task[i].wake
    /\ LivenessCheck(i, Window(i), task[i], "poll")
    /\ UNCHANGED <<config, now, link, loop, harness, flusher>>

\* The wait after the ping is over: close and leave the while loop when the
\* deadline has still passed, the poll sleep otherwise.
SupAfterPingSleep(i) ==
    /\ Running(i)
    /\ task[i].pc = "ping_wait"
    /\ now >= task[i].wake
    /\ IF stalled(Window(i))
       THEN /\ Commit(i, close(Window(i)))
            /\ call' = [call EXCEPT ![i] = Call("close", <<>>, i)]
            /\ task' = [task EXCEPT ![i].pc = "cooldown",
                                    ![i].wake = now + config.reconnect_cooldown,
                                    ![i].cycle.at = now,
                                    ![i].cycle.verdict = "closed"]
       ELSE /\ task' = [task EXCEPT ![i].pc = "recv_wait",
                                    ![i].wake = now + config.check_recv_interval,
                                    ![i].cycle.at = now,
                                    ![i].cycle.verdict = "kept"]
            /\ UNCHANGED <<recorder, transport, buffer, frames, events, call>>
    /\ UNCHANGED <<config, now, link, loop, harness, flusher>>

\* The sleep of the finally clause is over: the for loop goes on.
SupAfterCooldown(i) ==
    /\ Running(i)
    /\ task[i].pc = "cooldown"
    /\ now >= task[i].wake
    /\ NextAttempt(i, [task[i] EXCEPT !.cooldowns = @ + 1])
    /\ UNCHANGED <<config, buffer, now, harness, flusher>>

\* The event loop hands received bytes to data_received.
SupDataReceived(i) ==
    /\ Alive
    /\ link[i] = "made"
    /\ ~transport[i].is_closing
    /\ Len(buffer[i]) <= MaxBuffer
    /\ Len(recorder[i].payload) <= MaxPayload
    /\ \E d \in (IF recorder[i].wshandshake THEN SupResponses ELSE SupReads) :
          /\ Commit(i, data_received(Window(i), d))
          /\ call' = [call EXCEPT ![i] = Call("data_received", d, i)]
          /\ LET s == data_received(Window(i), d)
                 t == IF s.closing \/ s.raised
                      THEN [task[i] EXCEPT !.fault = now]
                      ELSE task[i]
             IN  task' = IF task[i].cycle.verdict = "wait" /\ ~recorder[i].wshandshake
                         THEN [task EXCEPT ![i] =
                                [t EXCEPT !.cycle.heard = TRUE,
                                          !.cycle.last = now,
                                          !.cycle.pong = @ \/ d = PongFrame]]
                         ELSE [task EXCEPT ![i] = t]
    /\ UNCHANGED <<config, now, link, loop, harness, flusher>>

\* The clock advances while no sleeper is due.
Tick ==
    /\ loop = "running"
    /\ now < MaxTime
    /\ \A i \in Instruments :
          task[i].pc \in {"connecting", "recv_wait", "ping_wait", "cooldown"}
              => now < task[i].wake
    /\ now' = now + 1
    /\ UNCHANGED <<config, recorder, transport, buffer, frames, events, link,
                   call, harness, trader>>

\* Application.run after run_forever has returned: the loop is closed.
LoopClose ==
    /\ loop = "stopped"
    /\ loop' = "closed"
    /\ UNCHANGED <<config, recorder, transport, buffer, frames, events, now,
                   link, call, harness, task, flusher>>

SupNext ==
    \/ SupStart(Conn)
    \/ SupConnected(Conn)
    \/ SupConnectFails(Conn)
    \/ SupAfterRecvSleep(Conn)
    \/ SupAfterPingSleep(Conn)
    \/ SupAfterCooldown(Conn)
    \/ SupDataReceived(Conn)
    \/ (Alive /\ TransportFails(Conn))
    \/ (Alive /\ ConnectionLost(Conn))
    \/ Tick
    \/ LoopClose

SpecSup == SupInit /\ [][SupNext]_vars

\* The latest liveness cycle of the connection's task, once it is decided.
Cycle == task[Conn].cycle

Decided == Cycle.sent /\ Cycle.verdict \in {"closed", "kept"}

\* C5 as stated: after a liveness ping, the connection is closed and the
\* task goes to the cooldown when no pong has arrived within
\* check_ping_interval; when the matching pong has arrived in time, the
\* token is cleared and the connection is kept.
C5_LivenessAsStated ==
    (Decided /\ Cycle.open) =>
        IF Cycle.pong
        THEN /\ Cycle.verdict = "kept"
             /\ recorder[Conn].wsping = <<>>
        ELSE /\ Cycle.verdict = "closed"
             /\ task[Conn].pc = "cooldown"

\* The state part of C5 amended: the wait lasts check_ping_interval; the
\* supervisor closes the connection exactly when nothing was received on
\* the open connection during the wait, or the last bytes received were
\* received more than recv_interval before the wait ended; it then sleeps
\* the cooldown; otherwise it goes to the poll sleep without a close.  The
\* token is cleared exactly by a pong whose dispatched payload equals it.
C5_LivenessInv ==
    /\ Decided =>
          /\ Cycle.at = Cycle.since + config.check_ping_interval
          /\ Cycle.verdict = "closed"
                <=> (~Cycle.heard \/ Cycle.at > Cycle.last + config.recv_interval)
          /\ Cycle.verdict = "closed" =>
                /\ task[Conn].pc \in {"cooldown", "stopped"}
                /\ task[Conn].wake = Cycle.at + config.reconnect_cooldown
                /\ recorder[Conn].closing
                /\ transport[Conn].is_closing
          /\ Cycle.verdict = "kept" =>
                /\ task[Conn].pc = "recv_wait"
                /\ call[Conn].op # "close"
    /\ (call[Conn].op = "data_received" /\ ~call[Conn].recorder.wshandshake
            /\ call[Conn].recorder.wsping # <<>>) =>
          (recorder[Conn].wsping = <<>>
              <=> \E k \in 1..Len(events[Conn]) :
                     events[Conn][k] = Event("on_pong", call[Conn].recorder.wsping))

\* The step part of C5 amended: the cooldown ends with the next connection
\* attempt when the budget is not exhausted, with loop.stop() when it is.
C5_AfterCooldown ==
    (task[Conn].pc = "cooldown" /\ task'[Conn].pc # "cooldown") =>
        /\ now >= task[Conn].wake
        /\ IF task[Conn].attempts < config.maximum_reconnect_tries
           THEN /\ task'[Conn].pc = "connecting"
                /\ task'[Conn].attempts = task[Conn].attempts + 1
                /\ loop' = "running"
           ELSE /\ task'[Conn].pc = "stopped"
                /\ task'[Conn].attempts = task[Conn].attempts
                /\ loop' = "stopped"

\* C5 amended.
C5_LivenessAmended == []C5_LivenessInv /\ [][C5_AfterCooldown]_vars

\* C5 witness: the matching pong arrived during the wait and the connection
\* was kept, in a second attempt that followed a close by the supervisor.
C5_Witness ==
    /\ Decided
    /\ Cycle.open
    /\ Cycle.pong
    /\ Cycle.verdict = "kept"
    /\ recorder[Conn].wsping = <<>>
    /\ task[Conn].attempts = 2
    /\ task[Conn].connected = 2

\* No connection attempt of the task has succeeded.
AlwaysFailed == task[Conn].connected = 0

\* The state part of C7: while every attempt fails, the task has made at
\* most maximum_reconnect_tries attempts, has slept one cooldown for each
\* attempt that is over, never enters the liveness loop, and has stopped
\* the event loop only after exactly maximum_reconnect_tries attempts and as
\* many cooldowns.
C7_BudgetInv ==
    AlwaysFailed =>
        /\ task[Conn].pc \in {"start", "connecting", "cooldown", "stopped"}
        /\ task[Conn].attempts <= config.maximum_reconnect_tries
        /\ task[Conn].pc = "start" => task[Conn].attempts = 0
        /\ task[Conn].pc \in {"connecting", "cooldown"} =>
              /\ task[Conn].attempts >= 1
              /\ task[Conn].cooldowns = task[Conn].attempts - 1
        /\ task[Conn].pc = "stopped" =>
              /\ task[Conn].attempts = config.maximum_reconnect_tries
              /\ task[Conn].cooldowns = config.maximum_reconnect_tries
        /\ loop # "running" <=> task[Conn].pc = "stopped"

\* The step part of C7: a failed attempt is followed by its cooldown, not by
\* a retry; a cooldown lasts reconnect_cooldown and is followed by the next
\* attempt while the budget lasts, by loop.stop() when it is used up.
C7_BudgetStep ==
    task'[Conn].connected = 0 =>
        /\ (task[Conn].pc = "connecting" /\ task'[Conn] # task[Conn]) =>
              /\ task'[Conn].pc = "cooldown"
              /\ task'[Conn].attempts = task[Conn].attempts
              /\ task'[Conn].wake = now + config.reconnect_cooldown
        /\ (task[Conn].pc = "cooldown" /\ task'[Conn] # task[Conn]) =>
              /\ now = task[Conn].wake
              /\ task'[Conn].cooldowns = task[Conn].cooldowns + 1
              /\ IF task[Conn].attempts < config.maximum_reconnect_tries
                 THEN /\ task'[Conn].pc = "connecting"
                      /\ task'[Conn].attempts = task[Conn].attempts + 1
                 ELSE /\ task'[Conn].pc = "stopped"
                      /\ task'[Conn].attempts = task[Conn].attempts
                      /\ loop' = "stopped"

\* C7: the reconnect budget under a transport that always fails.
C7_ReconnectBudget == []C7_BudgetInv /\ [][C7_BudgetStep]_vars

\* C7 witness: two attempts have failed, two cooldowns were slept, and the
\* event loop is stopped.
C7_Witness ==
    /\ AlwaysFailed
    /\ config.maximum_reconnect_tries = 2
    /\ task[Conn].pc = "stopped"
    /\ task[Conn].attempts = 2
    /\ task[Conn].cooldowns = 2
    /\ loop = "stopped"

(***************************************************************************)
(* The flush task: Trader.run after the tasks of the instruments are       *)
(* created.  A step of the task runs from one await to the next: the sleep *)
(* to the boundary, aiofiles.open, f.write, and the close that ends the    *)
(* async with.  Between its steps the Recorders deliver messages.          *)
(***************************************************************************)
\* The messages the Recorders deliver, all in all.
MaxMessages == 4

\* The wakes of the flush task at which it writes files.
MaxCycles == 2

\* zlib.compress(data): the compressed stream, which is not data itself and
\* from which zlib.decompress gives data back.
compress(data) == [zlib |-> data]

decompress(compressed) == compressed.zlib

\* self.buffer[idx][length:].
TruncateMutant(buf, length) == <<>>

truncate(buf, length) == Slice(buf, length, Len(buf))

FlushInit ==
    /\ ObjectsInit
    /\ CodecIdle /\ StreamIdle /\ wire = <<>>
    /\ TraderIdle

\* The for loop reaches instrument k with the slots buf: the length is
\* taken and aiofiles.open is awaited.
BeginFile(k, buf) ==
    [flush EXCEPT !.pc = "opening", !.idx = k, !.length = Len(buf[k]),
                  !.data = <<>>, !.snap = buf[k], !.appended = <<>>]

\* The minute of Trader.run, in ticks of the clock.
FlushPeriod == 2

\* cur_time -= cur_time % 60: the time t floored to the minute.
minute_floor(t) == t - (t % FlushPeriod)

\* A mutant of the first wake: the slots keep what they hold.
FirstWakeMutant(buf) == buf

\* The else branch of the first wake: self.buffer[idx] = b"" for every idx.
first_wake(buf) == [i \in DOMAIN buf |-> <<>>]

\* The sleep to the boundary is over at time t of the flush task's clock:
\* the first wake empties the slots and sleeps again, a later one takes
\* cur_time and begins the files.
FlushWakeAt(t) ==
    /\ Alive
    /\ flush.pc = "sleep"
    /\ flush.cycle < MaxCycles
    /\ IF flush.first_time
       THEN /\ buffer' = first_wake(buffer)
            /\ flush' = [flush EXCEPT !.first_time = FALSE,
                                      !.discarded = flush.count,
                                      !.since = t]
       ELSE /\ flush' = [BeginFile(1, buffer) EXCEPT
                            !.names = Append(@, minute_floor(t))]
            /\ UNCHANGED buffer
    /\ UNCHANGED <<config, recorder, transport, frames, events, now, link, call,
                   harness, task, loop, files>>

\* The wake where the clock of the flush task is not followed: the time it
\* reads is left at 0.
FlushWake == FlushWakeAt(0)

\* aiofiles.open(filename, mode="wb") is done: the file exists and is
\* empty; the prefix is compressed and f.write is awaited.
FlushOpened ==
    /\ Alive
    /\ flush.pc = "opening"
    /\ files' = [files EXCEPT ![flush.idx] = Append(@, <<>>)]
    /\ flush' = [flush EXCEPT
            !.pc = "writing",
            !.data = compress(Slice(buffer[flush.idx], 0, flush.length))]
    /\ UNCHANGED <<config, recorder, transport, buffer, frames, events, now,
                   link, call, harness, task, loop>>

\* f.write is done: the file holds the data; the close is awaited.
FlushWritten ==
    /\ Alive
    /\ flush.pc = "writing"
    /\ files' = [files EXCEPT ![flush.idx][Len(files[flush.idx])] = flush.data]
    /\ flush' = [flush EXCEPT !.pc = "closing"]
    /\ UNCHANGED <<config, recorder, transport, buffer, frames, events, now,
                   link, call, harness, task, loop>>

\* The file is closed: the prefix is removed from the slot and the for loop
\* goes on, to the next instrument or, at time t of the flush task's clock,
\* back to the sleep.
FlushClosedAt(t) ==
    /\ Alive
    /\ flush.pc = "closing"
    /\ buffer' = [buffer EXCEPT ![flush.idx] = truncate(@, flush.length)]
    /\ flush' = IF flush.idx < NumInstruments
                THEN BeginFile(flush.idx + 1, buffer')
                ELSE [flush EXCEPT !.pc = "sleep", !.cycle = @ + 1,
                                   !.since = t]
    /\ UNCHANGED <<config, recorder, transport, frames, events, now, link, call,
                   harness, task, loop, files>>

FlushClosed == FlushClosedAt(0)

\* The payload of the k-th message.
Message(k) == <<k>>

\* A Recorder receives its next message, in a text or a binary frame.
FlushMessage(i) ==
    /\ Alive
    /\ link[i] = "made"
    /\ ~recorder[i].wshandshake
    /\ ~transport[i].is_closing
    /\ flush.count < MaxMessages
    /\ LET d == ServerFrame(1, 0, IF flush.count % 2 = 0 THEN TEXT ELSE BIN,
                            Message(flush.count + 1))
           s == data_received(Window(i), d)
       IN  /\ Commit(i, s)
           /\ call' = [call EXCEPT ![i] = Call("data_received", d, i)]
           /\ flush' = [flush EXCEPT
                  !.count = @ + 1,
                  !.appended =
                      IF flush.pc # "sleep" /\ flush.idx = i
                      THEN @ \o Slice(s.buffer[i], Len(buffer[i]), Len(s.buffer[i]))
                      ELSE @]
    /\ UNCHANGED <<config, now, link, harness, task, loop, files>>

FlushHandshake(i) ==
    /\ Alive
    /\ link[i] = "made"
    /\ recorder[i].wshandshake
    /\ ~transport[i].is_closing
    /\ Commit(i, data_received(Window(i), GoodResponse))
    /\ call' = [call EXCEPT ![i] = Call("data_received", GoodResponse, i)]
    /\ UNCHANGED <<config, now, link, harness, trader>>

\* The connections open one after the other, in the order of their tasks.
FlushConnect(i) ==
    /\ \A j \in 1..(i - 1) : link[j] = "made" /\ ~recorder[j].wshandshake
    /\ flush.first_time /\ flush.pc = "sleep"
    /\ ConnectionMade(i) \/ FlushHandshake(i)

FlushNext ==
    \/ FlushWake \/ FlushOpened \/ FlushWritten \/ FlushClosed
    \/ \E i \in Instruments : FlushConnect(i) \/ FlushMessage(i)

SpecFlush == FlushInit /\ [][FlushNext]_vars

\* The bytes a Recorder appends for its messages first..last.
RECURSIVE Appended(_, _)
Appended(first, last) ==
    IF first > last THEN <<>>
    ELSE Appended(first, last - 1) \o Message(last) \o <<0>>

\* The state part of C6: between the snapshot of the length and the
\* truncation the slot is the snapshot followed by the bytes appended since;
\* what is written is the compressed snapshot, all of it.
C6_FlushInv ==
    flush.pc \in {"opening", "writing", "closing"} =>
        /\ ~flush.first_time
        /\ flush.length = Len(flush.snap)
        /\ buffer[flush.idx] = flush.snap \o flush.appended
        /\ flush.pc \in {"writing", "closing"} =>
              flush.data = compress(flush.snap)
        /\ flush.pc = "closing" =>
              files[flush.idx][Len(files[flush.idx])] = compress(flush.snap)

\* The step part of C6: the truncation leaves in the slot exactly the bytes
\* appended since the snapshot, and the file keeps the snapshot.
C6_FlushStep ==
    (flush.pc = "closing" /\ flush'.pc # "closing") =>
        /\ buffer'[flush.idx] = flush.appended
        /\ files' = files
        /\ decompress(files[flush.idx][Len(files[flush.idx])]) = flush.snap

\* C6: no byte is lost or written twice when the Recorder appends while the
\* flush task is suspended between its length snapshot and its truncation.
C6_FlushNoLoss == []C6_FlushInv /\ [][C6_FlushStep]_vars

\* C6 witness: a file has been written from a snapshot of two messages
\* while a third message was appended before the truncation, which has left
\* that message in the slot.
C6_Witness ==
    /\ flush.pc = "sleep"
    /\ flush.cycle = 1
    /\ flush.snap = Appended(1, 2)
    /\ flush.appended = Appended(3, 3)
    /\ files[NumInstruments] = <<compress(Appended(1, 2))>>
    /\ buffer[NumInstruments] = Appended(3, 3)

\* Whether file k of instrument i has been written.
Written(i, k) ==
    ~(flush.pc = "writing" /\ flush.idx = i /\ k = Len(files[i]))

\* The files instrument i has in the course of the for loop: one for every
\* wake that has ended and one more when the running wake has opened its
\* file.
FilesDue(i) ==
    flush.cycle +
        (IF flush.pc # "sleep"
            /\ (i < flush.idx \/ (i = flush.idx /\ flush.pc # "opening"))
         THEN 1 ELSE 0)

\* The state part of C15: before the first wake is over there is no file;
\* no file and, after the first wake, no slot holds a byte of a message
\* delivered before the first wake; every wake after the first has written
\* one file for every instrument.
C15_FirstWakeInv ==
    /\ flush.first_time =>
          /\ flush.pc = "sleep" /\ flush.cycle = 0
          /\ \A i \in Instruments : files[i] = <<>>
    /\ \A i \in Instruments :
          /\ Len(files[i]) = FilesDue(i)
          /\ \A k \in 1..Len(files[i]) :
                Written(i, k) =>
                    \A j \in 1..Len(decompress(files[i][k])) :
                        \/ decompress(files[i][k])[j] = 0
                        \/ decompress(files[i][k])[j] > flush.discarded
          /\ ~flush.first_time =>
                \A j \in 1..Len(buffer[i]) :
                    buffer[i][j] = 0 \/ buffer[i][j] > flush.discarded

\* The step part of C15: the first wake writes no file and leaves every
\* slot empty.
C15_FirstWakeStep ==
    (flush.first_time /\ ~flush'.first_time) =>
        /\ files' = files
        /\ \A i \in Instruments : buffer'[i] = <<>>
        /\ flush'.pc = "sleep"

\* C15: the first wake of the flush loop writes no file and resets every
\* slot, so no byte appended before it appears in any file; every later wake
\* writes exactly one file per instrument.
C15_FirstWakeDiscard == []C15_FirstWakeInv /\ [][C15_FirstWakeStep]_vars

\* C15 witness: a message was delivered before the first wake and another
\* after it; the second wake has written one file per instrument and the
\* file of the receiving instrument holds the second message only.
C15_Witness ==
    /\ flush.pc = "sleep"
    /\ flush.cycle = 1
    /\ flush.discarded = 1
    /\ \A i \in Instruments : Len(files[i]) = 1
    /\ files[NumInstruments] = <<compress(Appended(2, 2))>>

(***************************************************************************)
(* Pongs and pings on one connection (specification Spec).                 *)
(***************************************************************************)
\* The payloads of the pong frames a read may consist of.
PongPayloads == {<<>>, <<97>>, Token}

\* C11 as stated: a final pong frame received on an open connection is
\* ignored when no token is outstanding; it clears the token and leaves the
\* connection open when its payload equals the token; it closes the
\* connection and leaves the token when its payload differs from the token.
C11_PongHandlingAsStated ==
    \A p \in PongPayloads :
        (ReadOnOpen /\ call[Conn].data = ServerFrame(1, 0, PONG, p)) =>
            IF call[Conn].recorder.wsping = <<>>
            THEN /\ recorder[Conn].wsping = <<>>
                 /\ ~recorder[Conn].closing
                 /\ transport[Conn].log = <<>>
            ELSE IF p = call[Conn].recorder.wsping
            THEN /\ recorder[Conn].wsping = <<>>
                 /\ ~recorder[Conn].closing
                 /\ transport[Conn].log = <<>>
            ELSE /\ recorder[Conn].wsping = call[Conn].recorder.wsping
                 /\ recorder[Conn].closing
                 /\ transport[Conn].is_closing

\* The places of the transport's log, in the latest call, where a ping frame
\* was written.
PingPlaces ==
    {k \in 1..Len(transport[Conn].log) :
        /\ transport[Conn].log[k].op = "write"
        /\ transport[Conn].log[k].data # opening_handshake
        /\ transport[Conn].log[k].data[1] = 128 + PING}

\* C12 as stated: ping() with a token outstanding writes nothing and leaves
\* the token; a ping frame is written only by a ping() that found no token
\* outstanding, and a token is cleared only by a pong that carries it (so
\* the ping frames sent are at most the matching pongs plus one); a token is
\* outstanding only when the ping frame that carries it has been written.
C12_OnePingInFlightAsStated ==
    /\ (call[Conn].op = "ping" /\ call[Conn].recorder.wsping # <<>>) =>
          /\ transport[Conn].log = <<>>
          /\ recorder[Conn].wsping = call[Conn].recorder.wsping
    /\ PingPlaces # {} =>
          /\ call[Conn].op = "ping"
          /\ call[Conn].recorder.wsping = <<>>
          /\ Cardinality(PingPlaces) = 1
    /\ (call[Conn].op # "none" /\ call[Conn].recorder.wsping # <<>>
            /\ recorder[Conn].wsping = <<>>) =>
          /\ call[Conn].op = "data_received"
          /\ \E k \in 1..Len(events[Conn]) :
                events[Conn][k] = Event("on_pong", call[Conn].recorder.wsping)
    /\ (call[Conn].op # "none" /\ call[Conn].recorder.wsping = <<>>
            /\ recorder[Conn].wsping # <<>>) =>
          transport[Conn].log = <<Write(pack(PING, recorder[Conn].wsping))>>

(***************************************************************************)
(* Protocol errors under the supervisor (specification SpecSup).           *)
(***************************************************************************)
\* The task is in the while loop of __run_recorder.
InLivenessLoop(t) == t.pc \in {"recv_wait", "ping_wait"}

\* The time at which a protocol error closed the task's latest connection.
Fault == task[Conn].fault

\* The task's latest connection is the one a protocol error has closed.
Faulted == Fault >= 0 /\ task[Conn].pc \in {"recv_wait", "ping_wait", "cooldown"}

\* The state part of C13: a connection that a protocol error has closed is
\* closing and receives nothing more; the event loop is stopped only when
\* the attempt budget is used up; and the task stays in its liveness loop
\* no longer than until the receive deadline has passed and one poll sleep
\* and one wait for a pong are over.
C13_RecoveryInv ==
    /\ Faulted =>
          /\ transport[Conn].is_closing
          /\ recorder[Conn].closing \/ recorder[Conn].wshandshake
          /\ recorder[Conn].next_recv_ts_ns <= Fault + config.recv_interval
    /\ loop # "running" =>
          /\ task[Conn].pc = "stopped"
          /\ task[Conn].attempts = config.maximum_reconnect_tries
    /\ (Faulted /\ InLivenessLoop(task[Conn])) =>
          /\ now <= task[Conn].wake
          /\ task[Conn].wake <= Fault + config.recv_interval
                                  + config.check_recv_interval
                                  + config.check_ping_interval

\* The step part of C13: the task leaves the liveness loop of a connection
\* that a protocol error has closed for the cooldown, and after the cooldown
\* it makes the next attempt when the budget is not used up.
C13_RecoveryStep ==
    /\ (Faulted /\ InLivenessLoop(task[Conn]) /\ ~InLivenessLoop(task'[Conn])) =>
          /\ task'[Conn].pc = "cooldown"
          /\ task'[Conn].wake = now + config.reconnect_cooldown
          /\ loop' = "running"
    /\ (Faulted /\ task[Conn].pc = "cooldown" /\ task'[Conn].pc # "cooldown") =>
          /\ now = task[Conn].wake
          /\ IF task[Conn].attempts < config.maximum_reconnect_tries
             THEN /\ task'[Conn].pc = "connecting"
                  /\ task'[Conn].attempts = task[Conn].attempts + 1
                  /\ ~recorder'[Conn].closing
                  /\ ~transport'[Conn].is_closing
                  /\ loop' = "running"
             ELSE task'[Conn].pc = "stopped"

\* C13: a protocol error (reserved bits, unknown opcode, mismatched pong,
\* failed handshake validation) closes the connection without halting the
\* process, and while attempts are left the supervisor leaves the liveness
\* loop of that connection within the time the deadline and its two sleeps
\* allow, sleeps the cooldown and makes the next connection attempt.
C13_ProtocolErrorRecovery == []C13_RecoveryInv /\ [][C13_RecoveryStep]_vars

\* C13 witness: the first connection was closed by a protocol error and the
\* task has begun its second attempt.
C13_Witness ==
    /\ Fault >= 0
    /\ task[Conn].attempts = 2
    /\ task[Conn].pc = "connecting"
    /\ config.maximum_reconnect_tries = 2

(***************************************************************************)
(* The Trader: the tasks of all instruments, the flush task and the event  *)
(* loop of Application.run together.  The last instrument's host answers   *)
(* every time; a connection to another host ends when the timeout is over. *)
(***************************************************************************)
\* The instrument whose connections succeed.
Live == NumInstruments

\* The configuration of the Trader: a task that never connects is out of
\* attempts after a connection that stalled has been closed and replaced.
TraderConfig == [DefaultConfig EXCEPT !.maximum_reconnect_tries = 3]

\* Trader.run has created the tasks and sleeps before its first wake.
TraderInit ==
    /\ CodecIdle /\ StreamIdle /\ wire = <<>>
    /\ now = 0
    /\ config = TraderConfig
    /\ recorder = [i \in Instruments |-> NewRecorder(i, TraderConfig, 0)]
    /\ transport = [i \in Instruments |-> NewTransport]
    /\ buffer = [i \in Instruments |-> <<>>]
    /\ frames = [i \in Instruments |-> <<>>]
    /\ events = [i \in Instruments |-> <<>>]
    /\ link = [i \in Instruments |-> "none"]
    /\ call = [i \in Instruments |-> NoCall]
    /\ TraderIdle

\* The clock advances once the first step of every task has run.
TraderTick ==
    /\ \A i \in Instruments : task[i].pc # "start"
    /\ Tick

\* The sleep of Trader.run ends at a minute boundary.  The Trader starts on
\* a boundary; the first wake is at the next one and the wake after it
\* follows at once, the sleep being 0.0001 s short of the boundary.
TraderWake ==
    /\ now >= FlushPeriod * (flush.cycle + 1)
    /\ FlushWake

\* The task of an instrument whose host does not answer has a step to run:
\* its first one, or the one after a timeout or a cooldown that is over.
Due(i) ==
    /\ i # Live
    /\ Running(i)
    /\ \/ task[i].pc = "start"
       \/ task[i].pc \in {"connecting", "cooldown"} /\ task[i].wake <= now

\* No such step is waiting.
Quiet == \A i \in Instruments : ~Due(i)

\* These tasks are created first and their timers, set together, fire
\* together: their steps run in the order of the instruments, before the
\* callbacks of the live connection and before the flush task.
Turn(i) ==
    /\ Due(i)
    /\ \A j \in 1..(i - 1) : ~Due(j)

TraderNext ==
    \/ \E i \in Instruments :
          \/ (Turn(i) /\ SupStart(i))
          \/ (Turn(i) /\ SupConnectFails(i))
          \/ (Turn(i) /\ SupAfterCooldown(i))
    \/ (Quiet /\ SupStart(Live))
    \/ (Quiet /\ SupConnected(Live))
    \/ (Quiet /\ SupAfterRecvSleep(Live))
    \/ (Quiet /\ SupAfterPingSleep(Live))
    \/ (Quiet /\ SupAfterCooldown(Live))
    \/ (Quiet /\ FlushHandshake(Live))
    \/ (Quiet /\ FlushMessage(Live))
    \/ (Quiet /\ TraderWake)
    \/ (Quiet /\ FlushOpened)
    \/ (Quiet /\ FlushWritten)
    \/ (Quiet /\ FlushClosed)
    \/ TraderTick
    \/ LoopClose

SpecTrader == TraderInit /\ [][TraderNext]_vars

\* C14 as stated: from the moment the event loop is stopped no connection
\* task makes progress and no further segment file is written.
C14_HaltAsStated ==
    [][loop # "running" => task' = task /\ files' = files]_vars

\* An exhausted task has used every attempt and has stopped the loop; the
\* loop is stopped by an exhausted task only.
C14_HaltInv ==
    /\ \A i \in Instruments :
          task[i].pc = "stopped" =>
              /\ loop # "running"
              /\ task[i].attempts = config.maximum_reconnect_tries
    /\ loop # "running" => \E i \in Instruments : task[i].pc = "stopped"

\* An exhausted task makes no further attempt; a stopped loop never runs
\* again and fires no timer that is not yet due; once the loop is closed no
\* task and no step of the flush task runs, and what the buffers hold stays
\* there.
C14_HaltStep ==
    /\ \A i \in Instruments :
          task[i].pc = "stopped" =>
              task'[i] = task[i] /\ recorder'[i] = recorder[i]
    /\ loop # "running" => loop' # "running" /\ now' = now
    /\ loop = "closed" =>
          /\ loop' = "closed"
          /\ task' = task /\ recorder' = recorder
          /\ flush' = flush /\ files' = files
          /\ buffer' = buffer

\* C14, amended: when an instrument's reconnect loop has used all its
\* attempts, that instrument makes no further attempt and the event loop is
\* stopped; once the callbacks that were ready have run and the loop has been
\* closed, no connection task progresses and the flush task takes no further
\* step, so the bytes still buffered are never written.
C14_Halt == []C14_HaltInv /\ [][C14_HaltStep]_vars

\* The loop is closed after an exhaustion while the live instrument's
\* connection is in its liveness loop and holds bytes in its buffer.
C14_Witness ==
    /\ loop = "closed"
    /\ task[Live].pc = "recv_wait"
    /\ buffer[Live] # <<>>

\* The Recorder of instrument i can receive no more: it was closed, or it
\* never had a transport or has lost it.
Dead(i) ==
    \/ recorder[i].connection_transport = "None"
    \/ recorder[i].closing /\ transport[i].is_closing

\* The step gives instrument i the Recorder of a next attempt.
NewAttempt(i) == task'[i].attempts # task[i].attempts

\* Slot i after the step is slot i before it without a prefix.
Drained(i) ==
    \E n \in 0..Len(buffer[i]) :
        buffer'[i] = Slice(buffer[i], n, Len(buffer[i]))

\* Slot i after the step is slot i before it and more.
Grown(i) ==
    /\ Len(buffer'[i]) > Len(buffer[i])
    /\ Slice(buffer'[i], 0, Len(buffer[i])) = buffer[i]

\* The step is one of the flush task.
FlushStep == flush'.pc # flush.pc \/ flush'.first_time # flush.first_time

C16_AppenderStep ==
    \A i \in Instruments :
        /\ NewAttempt(i) =>
              /\ task[i].attempts = 0 \/ Dead(i)
              /\ buffer'[i] = buffer[i]
        /\ Dead(i) => ~Grown(i)
        /\ FlushStep => Drained(i) /\ recorder'[i] = recorder[i]
        /\ buffer'[i] # buffer[i] =>
              \/ FlushStep
              \/ /\ Grown(i)
                 /\ ~NewAttempt(i)
                 /\ call'[i].op = "data_received"
                 /\ call'[i].recorder = recorder[i]
                 /\ \A j \in Instruments \ {i} : call'[j] = call[j]

\* C16: the supervisor creates the Recorder of the next attempt only after
\* the Recorder of the previous attempt was closed or failed to connect, a
\* closed Recorder never appends, a slot grows only in a data_received of
\* its instrument's one current Recorder, and the flush task only removes a
\* prefix of a slot.
C16_SingleAppender == [][C16_AppenderStep]_vars

\* C16 witness: the live instrument is in its second attempt, the Recorder
\* of the first one was closed by the supervisor; the slot holds a message
\* and a file that is not empty has been written.
C16_Witness ==
    /\ task[Live].attempts = 2
    /\ task[Live].connected = 2
    /\ buffer[Live] # <<>>
    /\ Len(files[Live]) >= 1
    /\ flush.pc = "sleep"
    /\ files[Live][1] # compress(<<>>)

\* The step is a call of data_received on instrument i's Recorder.
Received(i) == call'[i] # call[i] /\ call'[i].op = "data_received"

\* The bytes received are the message with payload p, in one text or binary
\* frame.
Delivered(i, p) ==
    \E typ \in {TEXT, BIN} : call'[i].data = ServerFrame(1, 0, typ, p)

C17_EffectStep ==
    \A i \in Instruments :
        /\ (Received(i) /\ ~recorder[i].wshandshake) =>
              \A k \in 1..MaxMessages :
                  Delivered(i, Message(k)) =>
                      /\ buffer'[i] = (buffer[i] \o Message(k)) \o <<0>>
                      /\ \A j \in Instruments \ {i} : buffer'[j] = buffer[j]
                      /\ recorder'[i].next_recv_ts_ns =
                             now + config.recv_interval
        /\ recorder'[i].next_recv_ts_ns # recorder[i].next_recv_ts_ns =>
              \/ NewAttempt(i)
              \/ Received(i) /\ ~recorder[i].wshandshake
        /\ task'[i] # task[i] /\ ~NewAttempt(i) =>
              recorder'[i].next_recv_ts_ns = recorder[i].next_recv_ts_ns

\* C17: a complete text or binary message delivered to the Recorder of
\* instrument i appends its payload and one NUL byte to slot i, leaves the
\* other slots as they are and sets the receive deadline to now +
\* recv_interval; the deadline changes only in the Recorder, when it is
\* created and at the end of a read, and no step of the supervisor's
\* liveness loop changes it.
C17_RecorderEffect == [][C17_EffectStep]_vars

\* C17 witness: a text and a binary message have been delivered, the second
\* one after the clock has advanced; both are in the slot, each followed by
\* a NUL byte, and the deadline is the time of the second read plus
\* recv_interval.
C17_Witness ==
    /\ now = 1
    /\ flush.count = 2
    /\ call[Live].op = "data_received"
    /\ call[Live].data = ServerFrame(1, 0, BIN, Message(2))
    /\ buffer[Live] = <<1, 0, 2, 0>>
    /\ \A j \in Instruments \ {Live} : buffer[j] = <<>>
    /\ recorder[Live].next_recv_ts_ns = 1 + config.recv_interval

(***************************************************************************)
(* The read loop on one connection (specification Spec).                   *)
(***************************************************************************)
\* The bytes data begin with a complete frame: a header that unpack_from
\* accepts, the extended length it announces and the payload are all there.
BeginsWithFrame(data) ==
    /\ Len(data) >= FRAME_HEADER_SIZE
    /\ LET h == unpack_from(data, 0)
           ext == IF data[2] % 128 = 126 THEN 2
                  ELSE IF data[2] % 128 = 127 THEN 8 ELSE 0
       IN  /\ ~h.err
           /\ h.length # -1
           /\ FRAME_HEADER_SIZE + ext + h.length <= Len(data)

\* C18 as stated: after a data_received call on an open connection that is
\* not closing, the retained tail of the receive buffer does not begin with
\* a complete frame, whatever the payload length of the frames, zero
\* included.
C18_GreedyAsStated ==
    (ReadOnOpen /\ ~recorder[Conn].closing) =>
        ~BeginsWithFrame(recorder[Conn].data)

\* A close frame followed, in the same read, by a message.
CloseThenMessage ==
    ServerFrame(1, 0, CLOSE, <<>>) \o ServerFrame(1, 0, TEXT, <<97>>)

\* C19: once the closing flag of a connection is set, no frame is dispatched
\* on it, neither a frame that follows in the same read nor one of a later
\* read: a read on a closing connection dispatches nothing, appends nothing
\* to the instrument's slot and writes nothing; the transport of a closing
\* connection is closed or gone, and within a call nothing is written once
\* the transport was closed.
C19_NoDispatchAfterClosing ==
    /\ \A k \in 1..Len(frames[Conn]) : ~frames[Conn][k].closing
    /\ recorder[Conn].closing =>
          \/ transport[Conn].is_closing
          \/ recorder[Conn].connection_transport = "None"
    /\ (call[Conn].op = "data_received" /\ call[Conn].recorder.closing) =>
          /\ frames[Conn] = <<>>
          /\ events[Conn] = <<>>
          /\ buffer[Conn] = call[Conn].buffer
          /\ \A k \in 1..Len(transport[Conn].log) :
                transport[Conn].log[k].op # "write"
    /\ \A j, k \in 1..Len(transport[Conn].log) :
          (j < k /\ transport[Conn].log[j].op = "close") =>
              transport[Conn].log[k].op # "write"

\* C19 witness: a read on an open connection held a close frame and then a
\* message: the close frame was dispatched and the message was not.
C19_Witness ==
    /\ ReadOnOpen
    /\ call[Conn].data = CloseThenMessage
    /\ recorder[Conn].closing
    /\ Len(frames[Conn]) = 1
    /\ frames[Conn][1].typ = CLOSE
    /\ events[Conn] = <<>>
    /\ buffer[Conn] = call[Conn].buffer

(***************************************************************************)
(* The handshake under the supervisor (specification SpecSup).             *)
(***************************************************************************)
\* C20 as stated: while the connection is handshaking, whatever the
\* supervisor's liveness loop and the connection's callbacks do, the only
\* bytes written to the transport are the opening handshake request: no
\* ping, pong or closing-handshake frame.
C20_HandshakeFirstAsStated ==
    recorder[Conn].wshandshake =>
        \A k \in 1..Len(transport[Conn].log) :
            transport[Conn].log[k].op = "write" =>
                transport[Conn].log[k].data = opening_handshake

(***************************************************************************)
(* The flush task and a connection whose messages arrive in fragments: the *)
(* first frame of a message may come in a read of its own, and the flush   *)
(* task may run between that read and the one that ends the message.       *)
(***************************************************************************)
\* A Recorder receives the first, non-final frame of its next message; the
\* frame that ends the message comes with FlushMessage.
FlushFragment(i) ==
    /\ Alive
    /\ link[i] = "made"
    /\ ~recorder[i].wshandshake
    /\ ~transport[i].is_closing
    /\ flush.count < MaxMessages
    /\ recorder[i].payload = <<>>
    /\ LET d == ServerFrame(0, 0, TEXT, Message(flush.count + 1))
       IN  /\ Commit(i, data_received(Window(i), d))
           /\ call' = [call EXCEPT ![i] = Call("data_received", d, i)]
    /\ UNCHANGED <<config, now, link, harness, trader>>

\* The connection of the live instrument opens before the first wake.
WholeConnect ==
    /\ flush.first_time /\ flush.pc = "sleep"
    /\ ConnectionMade(Live) \/ FlushHandshake(Live)

WholeNext ==
    \/ FlushWake \/ FlushOpened \/ FlushWritten \/ FlushClosed
    \/ WholeConnect
    \/ FlushFragment(Live)
    \/ FlushMessage(Live)

SpecWhole == FlushInit /\ [][WholeNext]_vars

\* The bytes data are whole messages, each followed by its delimiter: data
\* is empty or ends with a NUL byte, no message is empty and the payload
\* bytes of one message are those of one message number.
MessagesOnly(data) ==
    \/ data = <<>>
    \/ /\ data[Len(data)] = 0
       /\ data[1] # 0
       /\ \A j \in 1..(Len(data) - 1) :
             /\ (data[j] = 0) => data[j + 1] # 0
             /\ (data[j] # 0 /\ data[j + 1] # 0) => data[j] = data[j + 1]

\* The files of instrument i that hold a byte of message k.
FilesWith(i, k) ==
    {f \in 1..Len(files[i]) :
        /\ Written(i, f)
        /\ \E j \in 1..Len(decompress(files[i][f])) :
              decompress(files[i][f])[j] = k}

\* Whether slot i holds a byte of message k.
SlotWith(i, k) == \E j \in 1..Len(buffer[i]) : buffer[i][j] = k

\* C21: whenever the flush task can look at a slot, the slot is empty or
\* ends with the delimiter of a message that was appended whole, and so is
\* the prefix whose length the flush task has taken; every segment file is
\* a concatenation of whole messages, and the bytes of one message are in
\* one file only, or in the slot only.
C21_WholeMessages ==
    \A i \in Instruments :
        /\ MessagesOnly(buffer[i])
        /\ (flush.pc \in {"opening", "writing", "closing"} /\ flush.idx = i) =>
              /\ MessagesOnly(Slice(buffer[i], 0, flush.length))
              /\ MessagesOnly(Slice(buffer[i], flush.length, Len(buffer[i])))
        /\ \A f \in 1..Len(files[i]) :
              Written(i, f) => MessagesOnly(decompress(files[i][f]))
        /\ \A k \in 1..MaxMessages :
              /\ Cardinality(FilesWith(i, k)) <= 1
              /\ (flush.pc # "closing" \/ flush.idx # i) =>
                    ~(SlotWith(i, k) /\ FilesWith(i, k) # {})

\* C21 witness: the flush task took the length of the slot when the slot
\* held the first message, and the two frames of the second message came
\* before the truncation: the file holds the first message, the slot the
\* whole second one.
C21_Witness ==
    /\ flush.pc = "sleep"
    /\ flush.cycle = 1
    /\ flush.discarded = 0
    /\ files[Live] = <<compress(<<1, 0>>)>>
    /\ buffer[Live] = <<2, 2, 0>>
    /\ flush.appended = <<2, 2, 0>>

(***************************************************************************)
(* The flush task on its clock.  A tick of the clock is the 0.0001 s by    *)
(* which the sleep of Trader.run is short of the minute boundary, and the  *)
(* minute is FlushPeriod ticks.                                            *)
(***************************************************************************)
\* The ticks by which the event loop may end a sleep late.
MaxLate == 1

\* asyncio.sleep(remainder - 0.0001) begun at time t ends at this time at
\* the earliest; remainder is 60 - cur_time % 60.
sleep_end(t) == (t + (FlushPeriod - (t % FlushPeriod))) - 1

\* Trader.run is started at any time of the minute.
NamesInit ==
    /\ CodecIdle /\ StreamIdle /\ wire = <<>>
    /\ config = DefaultConfig
    /\ now \in 0..(FlushPeriod - 1)
    /\ recorder = [i \in Instruments |-> NewRecorder(i, DefaultConfig, now)]
    /\ transport = [i \in Instruments |-> NewTransport]
    /\ buffer = [i \in Instruments |-> <<>>]
    /\ frames = [i \in Instruments |-> <<>>]
    /\ events = [i \in Instruments |-> <<>>]
    /\ link = [i \in Instruments |-> "none"]
    /\ call = [i \in Instruments |-> NoCall]
    /\ task = [i \in Instruments |-> NewTask]
    /\ loop = "running"
    /\ flush = [NewFlush EXCEPT !.since = now]
    /\ files = [i \in Instruments |-> <<>>]

\* The sleep is over and the flush task reads the clock.
NamesWake ==
    /\ now >= sleep_end(flush.since)
    /\ FlushWakeAt(now)

\* The clock advances: during the sleep until the event loop ends it, which
\* it does MaxLate ticks late at the latest, and while a file is written.
NamesTick ==
    /\ now < MaxTime
    /\ flush.pc \in {"sleep", "writing"}
    /\ flush.pc = "sleep" => now < sleep_end(flush.since) + MaxLate
    /\ now' = now + 1
    /\ UNCHANGED <<config, recorder, transport, buffer, frames, events, link,
                   call, harness, trader>>

\* Messages come while the flush task sleeps.
NamesNext ==
    \/ NamesWake \/ FlushOpened \/ FlushWritten \/ FlushClosedAt(now)
    \/ WholeConnect
    \/ (flush.pc = "sleep" /\ FlushMessage(Live))
    \/ NamesTick

SpecNames == NamesInit /\ [][NamesNext]_vars

\* C22 as stated: any two wakes that write files write to different file
\* names, whatever the times of the wakes, so no segment file is replaced by
\* a later flush.
C22_NoOverwriteAsStated ==
    \A a, b \in 1..Len(flush.names) :
        a # b => flush.names[a] # flush.names[b]

(***************************************************************************)
(* The attempts of a task over its whole life (specification SpecSup).     *)
(***************************************************************************)
\* The task is in an attempt: it connects, is in the liveness loop or
\* sleeps the cooldown that ends the attempt.
InAttempt(t) == t.pc \in {"connecting", "recv_wait", "ping_wait", "cooldown"}

\* C23: over the whole life of an instrument's task the attempts, those
\* that connected and stalled as well as those that failed, are at most
\* maximum_reconnect_tries; the count is the attempts that are over plus the
\* one in progress, whether they connected or not, so a connection that
\* succeeded does not reset it; when the count is used up the task stops and
\* the event loop is stopped.
C23_LifetimeAttempts ==
    /\ task[Conn].attempts <= config.maximum_reconnect_tries
    /\ task[Conn].connected <= task[Conn].attempts
    /\ task[Conn].attempts =
          task[Conn].cooldowns + (IF InAttempt(task[Conn]) THEN 1 ELSE 0)
    /\ task[Conn].pc = "stopped" =>
          /\ task[Conn].attempts = config.maximum_reconnect_tries
          /\ loop # "running"
    /\ (loop # "running") => task[Conn].pc = "stopped"

\* C23 witness: of the attempts the configuration allows the first has
\* failed and the last has connected and was closed after a stall; the task
\* has stopped the event loop.
C23_Witness ==
    /\ task[Conn].pc = "stopped"
    /\ config.maximum_reconnect_tries = MaxTries
    /\ task[Conn].attempts = MaxTries
    /\ task[Conn].connected = 1
    /\ task[Conn].cycle.verdict = "closed"
    /\ loop = "stopped"

=============================================================================
